---- MODULE Spec2Model ----
(***************************************************************************)
(* poc-builder: the `generate` command (src/src/cli.py) as a state machine. *)
(* One run walks credential check -> parse (LLM) -> scaffold -> component  *)
(* generation (one LLM call per component) -> App.tsx -> npm install ->    *)
(* build-and-repair loop -> report.  External collaborators (the LLM       *)
(* service, npm, tsc) answer nondeterministically.                         *)
(*                                                                         *)
(* Texts are modelled as sequences of tokens: a token is an identifier     *)
(* (a maximal \w+ run) or a non-word separator, so that the whole-word     *)
(* rename of the deterministic fixer and the block extraction of the       *)
(* generator are computed, not assumed.  Captured command output is a      *)
(* sequence of diagnostic lines.                                           *)
(***************************************************************************)
EXTENDS Integers, Sequences, FiniteSets, TLC

VARIABLES
    pc,             \* position of the run inside generate()
    api_key,        \* TRUE iff --api-key / ANTHROPIC_API_KEY is set
    dirs,           \* directories that exist (relative to the output path)
    fs,             \* path -> text, NoFile when the path does not exist
    spec,           \* the ProjectSpec returned by the parser (NoSpec before)
    idx,            \* generate_project: index of the next component (1-based)
    attempt,        \* build loop: the loop variable `attempt` (0-based)
    build_success,  \* build loop: the flag build_success
    build_result,   \* build loop: the last CompletedProcess of `npm run build`
    input_tokens,   \* ClaudeClient.input_tokens
    output_tokens,  \* ClaudeClient.output_tokens
    log,            \* history: external actions of the run, in order
    console,        \* history: what the run printed that the claims read
    lastCall,       \* history: outcome of the most recent ClaudeClient.generate
    lastReply,      \* history: reply text of the most recent LLM call
    gw              \* ClaudeClient.generate request by request (SpecGateway)

vars == <<pc, api_key, dirs, fs, spec, idx, attempt, build_success, build_result,
          input_tokens, output_tokens, log, console, lastCall, lastReply, gw>>

(***************************************************************************)
(* Bounds of the model and constants of the program.                       *)
(***************************************************************************)
MaxComponents == 2      \* longest component list a parsed ProjectSpec carries
MaxCalls == 2           \* calls made on one ClaudeClient in SpecGateway
MaxResets == 1          \* reset_token_usage calls in SpecGateway
MaxRuns == 2            \* runs of generate on one output path in SpecRerun

max_attempts == 3       \* cli.py: max_attempts = 3
max_retries == 3        \* claude.py: ClaudeClient(max_retries=3)
BuildTailChars == 1000  \* cli.py: combined_error[-1000:]
InstallHeadChars == 500 \* cli.py: install_result.stderr[:500]

(***************************************************************************)
(* Generic helpers.                                                        *)
(***************************************************************************)
Range(s) == {s[i] : i \in 1..Len(s)}

SeqsUpTo(S, n) == UNION {[1..k -> S] : k \in 0..n}

Min(a, b) == IF a < b THEN a ELSE b

\* Python s[-n:]
LastN(s, n) == IF Len(s) > n THEN SubSeq(s, Len(s) - n + 1, Len(s)) ELSE s

\* Python s[:n]
FirstN(s, n) == SubSeq(s, 1, Min(n, Len(s)))

(***************************************************************************)
(* Texts.  An identifier token is [id, us]: the name and the number of     *)
(* leading underscores put in front of it; WS is a whitespace token.       *)
(***************************************************************************)
Tok(name) == [id |-> name, us |-> 0]

WS == [id |-> " ", us |-> 0]

IsSpace(t) == t = WS

\* Python str.strip(): leading and trailing whitespace removed
RECURSIVE LStrip(_)
LStrip(s) == IF s # <<>> /\ IsSpace(s[1]) THEN LStrip(Tail(s)) ELSE s

RECURSIVE RStrip(_)
RStrip(s) ==
    IF s # <<>> /\ IsSpace(s[Len(s)]) THEN RStrip(SubSeq(s, 1, Len(s) - 1)) ELSE s

Strip(s) == RStrip(LStrip(s))

(***************************************************************************)
(* The file system.  A path is <<directory, stem, extension>> relative to  *)
(* the output path; OutsidePath lies outside the project directory.        *)
(***************************************************************************)
CompNames == {"A", "B"}

NoFile == <<[id |-> "<absent>", us |-> 0]>>

RootDir == "."
SrcDir == "src"
ComponentsDir == "src/components"
PublicDir == "public"

TsxPath(n) == <<ComponentsDir, n, "tsx">>
CssPath(n) == <<ComponentsDir, n, "css">>
AppPath == <<SrcDir, "App", "tsx">>
OutsidePath == <<"..", "notes", "txt">>

\* the files create_project renders, copies or writes
TemplatePaths ==
    { <<RootDir, "package", "json">>, <<RootDir, "index", "html">>,
      <<SrcDir, "main", "tsx">>, <<SrcDir, "index", "css">>, <<SrcDir, "App", "css">>,
      TsxPath("Header"), CssPath("Header") }

StaticPaths ==
    { <<RootDir, "vite.config", "ts">>, <<RootDir, "tsconfig", "json">>,
      <<RootDir, "tsconfig.node", "json">>, <<PublicDir, "thales-logo", "svg">> }

GitignorePath == <<RootDir, "", "gitignore">>

ScaffoldPaths == TemplatePaths \cup StaticPaths \cup {GitignorePath}

ComponentPaths == {TsxPath(n) : n \in CompNames} \cup {CssPath(n) : n \in CompNames}

ProjectPaths == ScaffoldPaths \cup ComponentPaths \cup {AppPath}

\* a path under the project directory that the pipeline itself never creates
NewPath == <<SrcDir, "utils", "ts">>

Paths == ProjectPaths \cup {NewPath, OutsidePath}

Exists(f, p) == p \in DOMAIN f /\ f[p] # NoFile

\* the text create_project puts at a scaffold path
ScaffoldText(p) == <<Tok("scaffold"), Tok(p[2])>>

OldText == <<Tok("old")>>

(***************************************************************************)
(* LLM Gateway: ClaudeClient.generate.  `outs` gives, per request, what    *)
(* the service answers: "ok", a rate-limit failure, a connection failure   *)
(* or another API error.                                                   *)
(***************************************************************************)
Outcomes == {"ok", "rate", "conn", "api", "other"}

\* there is no `except APIError` clause
Caught_RateConn == {"rate", "conn"}

\* the failures caught by the three except clauses: RateLimitError,
\* APIConnectionError, APIError; any other exception leaves generate at once
Caught == {"rate", "conn", "api"}

OutcomeSeqs == [1..max_retries -> Outcomes]

\* what the service answers during a run: at once, after one failed request,
\* or never within the allowed requests
RunOutcomeSeqs ==
    { [i \in 1..max_retries |-> "ok"],
      [i \in 1..max_retries |-> IF i = 1 THEN "conn" ELSE "ok"],
      [i \in 1..max_retries |-> "rate"] }

\* the usage reported with a successful request during a run
RunUsages == {[inp |-> 2, out |-> 1]}

Usages == {[inp |-> 1, out |-> 2], [inp |-> 2, out |-> 1]}

NoCall == [ok |-> FALSE, requests |-> 0, sleeps |-> <<>>, error |-> "no call"]

RECURSIVE Pow2(_)
Pow2(n) == IF n = 0 THEN 1 ELSE 2 * Pow2(n - 1)

\* off by one: the last allowed attempt also sleeps
MayRetry_Always(a) == a < max_retries

\* the branch `attempt < self.max_retries - 1` of the three except clauses
MayRetry(a) == a < max_retries - 1

\* the time slept before the next request
WaitTime(kind, a) == IF kind \in {"rate", "conn"} THEN Pow2(a) ELSE 1

\* the error raised when the last allowed request fails
TerminalError(kind) ==
    CASE kind = "rate" -> "APIError: Rate limit exceeded after max_retries attempts"
      [] kind = "conn" -> "APIError: Connection failed after max_retries attempts"
      [] kind = "api" -> "APIError: api error"
      [] OTHER -> "Exception: not an API error"

\* what evaluating `APIError("<message>")` with the message alone surfaces
\* when the SDK's constructor has further required parameters
ConstructorError ==
    "TypeError: APIError.__init__() missing 1 required positional argument: 'request'"

\* what leaves generate when the last allowed request fails: the first two
\* clauses build a new APIError from a message alone, which the installed
\* SDK accepts or rejects; the third re-raises the caught error
Raises(kind) ==
    IF kind \in {"rate", "conn"}
    THEN {TerminalError(kind), ConstructorError}
    ELSE {TerminalError(kind)}

\* the for loop of generate from iteration a on; sl: the sleeps so far
RECURSIVE GenerateFrom(_, _, _)
GenerateFrom(outs, a, sl) ==
    IF a >= max_retries
    THEN [ok |-> FALSE, requests |-> a, sleeps |-> sl,
          error |-> "APIError: Failed to generate response after all retries"]
    ELSE IF outs[a + 1] = "ok"
    THEN [ok |-> TRUE, requests |-> a + 1, sleeps |-> sl, error |-> "none"]
    ELSE IF outs[a + 1] \in Caught /\ MayRetry(a)
    THEN GenerateFrom(outs, a + 1, Append(sl, WaitTime(outs[a + 1], a)))
    ELSE [ok |-> FALSE, requests |-> a + 1, sleeps |-> sl,
          error |-> TerminalError(outs[a + 1])]

Generate(outs) == GenerateFrom(outs, 0, <<>>)

\* `=` in place of `+=`: the counter holds the usage of the last request
AddUsage_Overwrite(tokens, amount) == amount

\* `self.input_tokens += response.usage.input_tokens`, likewise for output
AddUsage(tokens, amount) == tokens + amount

\* the usage of a successful call is not recorded
TokensAfter_Unrecorded(tokens, call, u, field) == tokens

\* the token counters after a call that ended as `call` with usage u
TokensAfter(tokens, call, u, field) ==
    IF call.ok THEN tokens + u[field] ELSE tokens

(***************************************************************************)
(* ClaudeClient.generate_structured.  A structured reply is a JSON text    *)
(* (an object, an array, or not JSON at all), bare or inside a ``` fence,  *)
(* with or without prose around it.                                        *)
(***************************************************************************)
Wraps == {"bare", "fenced", "fenced+prose", "bare+prose"}

\* the fence of a code block (three backticks)
Fence == Tok("<fence>")
JsonTag == Tok("json")
LBrace == Tok("{")
RBrace == Tok("}")
LBracket == Tok("[")
RBracket == Tok("]")
Prose == Tok("prose")

\* the JSON text of a value: an object, an array holding an object, or text
\* that is not JSON (keys, commas and scalars carry no structure and are left
\* out)
JsonText(kind) ==
    CASE kind = "object" -> <<LBrace, RBrace>>
      [] kind = "array" -> <<LBracket, LBrace, RBrace, RBracket>>
      [] OTHER -> <<Tok("oops")>>

\* the reply text the model service sends for a structured reply
ReplyText(reply) ==
    LET j == JsonText(reply.json.kind)
    IN CASE reply.wrap = "bare" -> j
         [] reply.wrap = "fenced" -> <<Fence, JsonTag, WS>> \o j \o <<WS, Fence>>
         [] reply.wrap = "fenced+prose" ->
               <<Prose, WS, Fence, JsonTag, WS>> \o j \o <<WS, Fence, WS, Prose>>
         [] OTHER -> <<Prose, WS>> \o j

\* \s*: the first index from j on that holds no whitespace
RECURSIVE SkipWs(_, _)
SkipWs(text, j) ==
    IF j <= Len(text) /\ IsSpace(text[j]) THEN SkipWs(text, j + 1) ELSE j

\* r"```(?:json)?\s*(\{" tried at index i: the index of the brace, else 0
ObjectStart(text, i) ==
    IF text[i] # Fence THEN 0
    ELSE LET j == IF i + 1 <= Len(text) /\ text[i + 1] = JsonTag THEN i + 2 ELSE i + 1
             k == SkipWs(text, j)
         IN IF k <= Len(text) /\ text[k] = LBrace THEN k ELSE 0

\* r"\})\s*```" at index e: a closing brace followed by the closing fence
ClosesAt(text, e) ==
    /\ text[e] = RBrace
    /\ LET k == SkipWs(text, e + 1) IN k <= Len(text) /\ text[k] = Fence

\* the ends `.*?` may stop at for a group opened at index st
GroupEnds(text, st) == {e \in (st + 1)..Len(text) : ClosesAt(text, e)}

LeastOf(S) == CHOOSE x \in S : \A y \in S : x <= y

\* re.search(r"```(?:json)?\s*(\{.*?\})\s*```", response, re.DOTALL):
\* group 1 of the leftmost match
FencedObject(text) ==
    LET starts == {i \in 1..Len(text) :
                      /\ ObjectStart(text, i) # 0
                      /\ GroupEnds(text, ObjectStart(text, i)) # {}}
    IN IF starts = {} THEN [found |-> FALSE, str |-> <<>>]
       ELSE LET st == ObjectStart(text, LeastOf(starts))
            IN [found |-> TRUE,
                str |-> SubSeq(text, st, LeastOf(GroupEnds(text, st)))]

\* the string handed to json.loads: the fenced object, else the whole reply
JsonStr(text) ==
    LET m == FencedObject(text)
    IN IF m.found THEN m.str ELSE Strip(text)

\* the JSON grammar over the tokens: the index after the value that starts
\* at index i, 0 when there is none
RECURSIVE ParseValue(_, _)
RECURSIVE ParseItems(_, _, _)
ParseItems(text, i, close) ==
    IF i > Len(text) THEN 0
    ELSE IF text[i] = close THEN i + 1
    ELSE LET n == ParseValue(text, i)
         IN IF n = 0 THEN 0 ELSE ParseItems(text, n, close)

ParseValue(text, i) ==
    IF i > Len(text) THEN 0
    ELSE IF text[i] = LBrace THEN ParseItems(text, i + 1, RBrace)
    ELSE IF text[i] = LBracket THEN ParseItems(text, i + 1, RBracket)
    ELSE 0

\* json.loads: the kind of the value, "invalid" for JSONDecodeError
JsonLoads(str) ==
    LET t == Strip(str)
    IN IF t # <<>> /\ ParseValue(t, 1) = Len(t) + 1
       THEN IF t[1] = LBrace THEN "object" ELSE "array"
       ELSE "invalid"

\* generate_structured after the reply arrived: the parsed value, or the
\* ValueError that carries the raw reply
GenerateStructured(reply) ==
    LET kind == JsonLoads(JsonStr(ReplyText(reply)))
    IN IF kind # "invalid"
       THEN [ok |-> TRUE, value |-> [reply.json EXCEPT !.kind = kind],
             error |-> "none"]
       ELSE [ok |-> FALSE, value |-> reply.json,
             error |-> "ValueError: Failed to parse JSON response"]

(***************************************************************************)
(* Requirements parser: ProjectSpec validation in RequirementsParser.parse *)
(***************************************************************************)
NoSpec == [components |-> <<>>, main_component |-> "<none>"]

ProjectSpecs ==
    [components : SeqsUpTo(CompNames, MaxComponents), main_component : CompNames]

\* JSON values the parse call may get back
ParseJsons ==
    {[kind |-> "object", complete |-> TRUE, val |-> ps] : ps \in ProjectSpecs}
    \cup {[kind |-> k, complete |-> FALSE, val |-> NoSpec] :
             k \in {"object", "array", "invalid"}}

ParseReplies == [wrap : Wraps, json : ParseJsons]

\* the returned value is not validated
ValidateSpec_Lenient(value) == [ok |-> TRUE, spec |-> value.val, error |-> "none"]

\* ProjectSpec(**response_dict): a dict with every required field validates
ValidateSpec(value) ==
    IF value.kind = "object" /\ value.complete
    THEN [ok |-> TRUE, spec |-> value.val, error |-> "none"]
    ELSE [ok |-> FALSE, spec |-> NoSpec,
          error |-> "ValueError: Failed to parse requirements"]

\* parse(): one generate_structured call, then validation; every failure
\* is wrapped into ValueError("Failed to parse requirements: ...")
Parse(call, reply) ==
    IF ~call.ok
    THEN [ok |-> FALSE, spec |-> NoSpec,
          error |-> "ValueError: Failed to parse requirements"]
    ELSE LET st == GenerateStructured(reply)
         IN IF ~st.ok
            THEN [ok |-> FALSE, spec |-> NoSpec,
                  error |-> "ValueError: Failed to parse requirements"]
            ELSE ValidateSpec(st.value)

(***************************************************************************)
(* Project scaffolder: ProjectScaffolder.create_project                    *)
(***************************************************************************)
ScaffoldDirs == {RootDir, SrcDir, ComponentsDir, PublicDir}

\* output_path.exists()
OutputExists(d) == RootDir \in d

\* the existence check is missing (mkdir with exist_ok)
CreateProject_Overwrite(d, f) ==
    [error |-> "none",
     dirs |-> d \cup ScaffoldDirs,
     fs |-> [p \in Paths |-> IF p \in ScaffoldPaths THEN ScaffoldText(p) ELSE f[p]]]

CreateProject(d, f) ==
    IF OutputExists(d)
    THEN [error |-> "FileExistsError: Output directory already exists",
          dirs |-> d, fs |-> f]
    ELSE [error |-> "none",
          dirs |-> d \cup ScaffoldDirs,
          fs |-> [p \in Paths |->
                    IF p \in ScaffoldPaths THEN ScaffoldText(p) ELSE f[p]]]

(***************************************************************************)
(* Component code generator.  A freeform reply is a sequence of fenced     *)
(* code blocks [lang, body] (the prose between them matches no pattern).   *)
(***************************************************************************)
Block(lang, body) == [lang |-> lang, body |-> body]

\* texts the model service writes
BodyX == <<Tok("x")>>
BodyXYX == <<WS, Tok("x"), Tok("y"), Tok("x"), WS>>
CssBody == <<Tok("css")>>

ComponentReplies ==
    { <<Block("tsx", BodyX), Block("css", CssBody)>>,
      <<Block("tsx", BodyXYX)>>,
      <<Block("css", CssBody)>>,
      <<Block("typescript", BodyX)>>,
      <<Block("css", CssBody), Block("tsx", <<WS, Tok("x"), WS>>),
        Block("tsx", BodyXYX)>> }

\* re.search(r"```<lang>\n(.*?)\n```"): the first block of that language,
\* 0 when there is none
FirstBlock(reply, lang) ==
    IF \E i \in 1..Len(reply) : reply[i].lang = lang
    THEN CHOOSE i \in 1..Len(reply) :
            /\ reply[i].lang = lang
            /\ \A j \in 1..(i - 1) : reply[j].lang # lang
    ELSE 0

\* f"/* Styles for {spec.name} */"
PlaceholderCss(name) == <<Tok("/* Styles for"), WS, Tok(name), WS, Tok("*/")>>

\* both blocks are required
MissingSource_EitherBlock(reply) ==
    FirstBlock(reply, "tsx") = 0 \/ FirstBlock(reply, "css") = 0

\* `if not tsx_match`
MissingSource(reply) == FirstBlock(reply, "tsx") = 0

\* generate_component after the reply arrived: (tsx_code, css_code) or the
\* ValueError naming the component
GenerateComponent(name, reply) ==
    LET t == FirstBlock(reply, "tsx")
        c == FirstBlock(reply, "css")
    IN IF MissingSource(reply)
       THEN [error |-> "ValueError: Failed to extract TSX code", name |-> name,
             tsx |-> <<>>, css |-> <<>>]
       ELSE [error |-> "none", name |-> name,
             tsx |-> Strip(reply[t].body),
             css |-> IF c # 0 THEN Strip(reply[c].body) ELSE PlaceholderCss(name)]

\* the root wiring file _update_app_component writes
AppText(main) ==
    << Tok("import"), WS, Tok("Header"), WS,
       Tok("import"), WS, Tok(main), WS,
       Tok("render"), WS, Tok("Header"), WS,
       Tok("render"), WS, Tok(main) >>

\* the two files written for one component
WriteComponent(f, gen) ==
    [f EXCEPT ![TsxPath(gen.name)] = gen.tsx, ![CssPath(gen.name)] = gen.css]

(***************************************************************************)
(* Captured build output.  A line carries the file reference matched by    *)
(* r"src/components/(\w+\.tsx):(\d+):(\d+)" (ref, "" when the line has     *)
(* none) and the identifier matched by r"TS6133: '(\w+)' is declared but   *)
(* its value is never read" (var, NoVar when the line has none).           *)
(***************************************************************************)
NoVar == [id |-> "", us |-> 0]

Line(ref, var) == [ref |-> ref, var |-> var]

HasRef(l) == l.ref # ""

HasUnused(l) == l.var # NoVar

TsxStems == CompNames \cup {"Header"}

VarIds == {"x"}

\* what the compiler can say about the files as they are: an identifier is
\* reported unused only in a file in which it occurs, an error is located
\* only in a file that exists
UnusedLines(f) ==
    UNION { {Line(n, v) : v \in {t \in Range(f[TsxPath(n)]) : t.id \in VarIds}} :
            n \in {m \in TsxStems : Exists(f, TsxPath(m))} }

\* files in which the modelled compiler locates errors other than TS6133
OtherStems == {"Header", "B"}

OtherLines(f) == {Line(n, NoVar) : n \in {m \in OtherStems : Exists(f, TsxPath(m))}}

PlainLine == Line("", NoVar)

\* the captured outputs of a failed build: one diagnostic, or a located
\* error of another kind followed by an unused-identifier diagnostic
BuildOutputs(f) ==
    {<<l>> : l \in UnusedLines(f) \cup OtherLines(f) \cup {PlainLine}}
    \cup {<<o, l>> : <<o, l>> \in OtherLines(f) \X UnusedLines(f)}

NoResult == [returncode |-> 0, out |-> <<>>, seq |-> 0]

(***************************************************************************)
(* Deterministic fixer: _attempt_simple_typescript_fix                     *)
(***************************************************************************)
\* list(re.finditer(unused_var_pattern, error_output)), group 1
UnusedMatches(out) == SelectSeq(out, HasUnused)

\* list(re.finditer(file_pattern, error_output)), group 1
FileMatches(out) == SelectSeq(out, HasRef)

\* index of the first whole-word occurrence of v in text, 0 when none
FirstOccurrence(text, v) ==
    IF \E i \in 1..Len(text) : text[i] = v
    THEN CHOOSE i \in 1..Len(text) :
            text[i] = v /\ \A j \in 1..(i - 1) : text[j] # v
    ELSE 0

\* f"_{unused_var}"
Underscored(v) == [v EXCEPT !.us = @ + 1]

\* re.sub(rf"\b{unused_var}\b", f"_{unused_var}", content, count=1)
RenameFirst(text, v) ==
    LET i == FirstOccurrence(text, v)
    IN IF i = 0 THEN text ELSE [text EXCEPT ![i] = Underscored(v)]

\* the loop over zip(matches, file_matches) from pair i on
RECURSIVE SimpleFixFrom(_, _, _, _)
SimpleFixFrom(f, ms, fms, i) ==
    IF i > Min(Len(ms), Len(fms))
    THEN [applied |-> FALSE, fs |-> f, file |-> "", var |-> NoVar]
    ELSE LET v == ms[i].var
             p == TsxPath(fms[i].ref)
         IN IF Exists(f, p) /\ RenameFirst(f[p], v) # f[p]
            THEN [applied |-> TRUE, fs |-> [f EXCEPT ![p] = RenameFirst(f[p], v)],
                  file |-> fms[i].ref, var |-> v]
            ELSE SimpleFixFrom(f, ms, fms, i + 1)

AttemptSimpleTypescriptFix(f, out) ==
    LET ms == UnusedMatches(out)
        fms == FileMatches(out)
    IN IF ms # <<>> /\ fms # <<>>
       THEN SimpleFixFrom(f, ms, fms, 1)
       ELSE [applied |-> FALSE, fs |-> f, file |-> "", var |-> NoVar]

(***************************************************************************)
(* LLM-assisted fixer: the try block of _attempt_build_fix                 *)
(***************************************************************************)
FixedText == <<Tok("fixed")>>

Fix(p) == [wellformed |-> TRUE, file |-> p, fixed_code |-> FixedText]

\* an element of the returned list that has no "file" key
Malformed == [wellformed |-> FALSE, file |-> NewPath, fixed_code |-> <<>>]

\* the lists of fixes the model service returns
FixLists ==
    { <<>>, <<Fix(TsxPath("A"))>>, <<Fix(NewPath)>>, <<Fix(OutsidePath)>>,
      <<Fix(TsxPath("A")), Malformed>> }

FixJsons ==
    {[kind |-> "array", val |-> l] : l \in FixLists}
    \cup {[kind |-> "object", val |-> <<>>], [kind |-> "invalid", val |-> <<>>]}

FixReplies ==
    [wrap : {"bare"}, json : FixJsons]
    \cup {[wrap |-> "fenced", json |-> [kind |-> "array", val |-> <<Fix(TsxPath("A"))>>]]}

\* `for fix in response:` from element i on; raised: fix["file"] failed
RECURSIVE ApplyFixesFrom(_, _, _)
ApplyFixesFrom(f, fixes, i) ==
    IF i > Len(fixes) THEN [raised |-> FALSE, fs |-> f]
    ELSE IF ~fixes[i].wellformed THEN [raised |-> TRUE, fs |-> f]
    ELSE IF Exists(f, fixes[i].file)
    THEN ApplyFixesFrom([f EXCEPT ![fixes[i].file] = fixes[i].fixed_code], fixes, i + 1)
    ELSE ApplyFixesFrom(f, fixes, i + 1)

\* the try/except of _attempt_build_fix, after the LLM call returned
\* failed: an exception was raised inside the try block
AttemptLlmFix(f, call, reply) ==
    IF ~call.ok THEN [applied |-> FALSE, fs |-> f, failed |-> TRUE]
    ELSE LET st == GenerateStructured(reply)
         IN IF ~st.ok THEN [applied |-> FALSE, fs |-> f, failed |-> TRUE]
            ELSE IF st.value.kind = "array" /\ Len(st.value.val) > 0
            THEN LET r == ApplyFixesFrom(f, st.value.val, 1)
                 IN [applied |-> ~r.raised, fs |-> r.fs, failed |-> r.raised]
            ELSE [applied |-> FALSE, fs |-> f, failed |-> FALSE]

(***************************************************************************)
(* The run: generate() in cli.py                                           *)
(***************************************************************************)
Event(ev, ok) == [ev |-> ev, ok |-> ok]

\* a printed message; seq: the build invocation whose output it shows
Msg(kind, text, name, lines) ==
    [kind |-> kind, text |-> text, name |-> name, lines |-> lines, seq |-> 0]

BuildErrorsMsg(result) ==
    [kind |-> "build_errors", text |-> "Build failed after max_attempts attempts",
     name |-> "", lines |-> LastN(result.out, BuildTailChars), seq |-> result.seq]

NoReply == [to |-> "none", text |-> <<>>]

\* `except Exception as e:` prints the error and aborts
ExceptException(con, e, name) == Append(con, Msg("error", e, name, <<>>))

\* `raise click.Abort()` inside the try block: click.Abort is a RuntimeError,
\* so the handler `except Exception` prints it (its text is empty)
RaiseAbort(con) == ExceptException(con, "", "")

\* `except FileExistsError as e:` prints the error and a hint
ExceptFileExists(con, e) ==
    con \o <<Msg("error", e, "", <<>>),
             Msg("hint", "Choose a different output directory with --output", "", <<>>)>>

\* a ClaudeClient on which no call is in progress and none was made
GwIdle ==
    [phase |-> "idle", structured |-> FALSE, attempt |-> 0, fails |-> <<>>,
     sleeps |-> <<>>, raised |-> <<>>, value |-> "none", calls |-> 0,
     reqs |-> <<>>, base |-> 0, resets |-> 0]

\* what lies at the output path before the run
FreshFs == [p \in Paths |-> IF p = OutsidePath THEN OldText ELSE NoFile]

OldFs == [FreshFs EXCEPT ![<<RootDir, "package", "json">>] = OldText]

Init ==
    /\ pc = "start"
    /\ api_key \in BOOLEAN
    /\ \/ dirs = {} /\ fs = FreshFs
       \/ dirs = {RootDir} /\ fs = OldFs
    /\ spec = NoSpec
    /\ idx = 1
    /\ attempt = 0
    /\ build_success = FALSE
    /\ build_result = NoResult
    /\ input_tokens = 0
    /\ output_tokens = 0
    /\ log = <<>>
    /\ console = <<>>
    /\ lastCall = NoCall
    /\ lastReply = NoReply
    /\ gw = GwIdle

\* one call of ClaudeClient.generate: the counters after it
CallLLM(call, u) ==
    /\ input_tokens' = TokensAfter(input_tokens, call, u, "inp")
    /\ output_tokens' = TokensAfter(output_tokens, call, u, "out")
    /\ lastCall' = call
    /\ gw' = gw

NoLLM == /\ UNCHANGED <<input_tokens, output_tokens, gw>>
         /\ lastCall' = NoCall
         /\ lastReply' = NoReply

\* `if not api_key and not os.getenv("ANTHROPIC_API_KEY")`
CredentialMissing(key) == ~key

\* lines 211-217: the credential check
CheckCredential ==
    /\ pc = "start"
    /\ IF CredentialMissing(api_key)
       THEN /\ console' = RaiseAbort(Append(console,
                              Msg("error", "Anthropic API key required", "", <<>>)))
            /\ pc' = "aborted"
       ELSE /\ console' = console
            /\ pc' = "parse"
    /\ NoLLM
    /\ UNCHANGED <<api_key, dirs, fs, spec, idx, attempt, build_success,
                   build_result, log>>

\* lines 245-249: parser.parse_from_file
ParseRequirements ==
    /\ pc = "parse"
    /\ \E outs \in RunOutcomeSeqs, u \in RunUsages, reply \in ParseReplies :
        LET call == Generate(outs)
            r == Parse(call, reply)
        IN /\ CallLLM(call, u)
           /\ lastReply' = [to |-> "parse", text |-> reply]
           /\ log' = Append(log, Event("llm:parse", call.ok))
           /\ IF r.ok
              THEN /\ spec' = r.spec
                   /\ console' = console
                   /\ pc' = "scaffold"
              ELSE /\ spec' = spec
                   /\ console' = ExceptException(console, r.error, "")
                   /\ pc' = "aborted"
    /\ UNCHANGED <<api_key, dirs, fs, idx, attempt, build_success, build_result>>

\* lines 251-255: scaffolder.create_project
Scaffold ==
    /\ pc = "scaffold"
    /\ LET r == CreateProject(dirs, fs)
       IN /\ dirs' = r.dirs
          /\ fs' = r.fs
          /\ IF r.error = "none"
             THEN /\ log' = Append(log, Event("scaffold", TRUE))
                  /\ console' = console
                  /\ pc' = "generate"
             ELSE /\ log' = log
                  /\ console' = ExceptFileExists(console, r.error)
                  /\ pc' = "aborted"
    /\ NoLLM
    /\ UNCHANGED <<api_key, spec, idx, attempt, build_success, build_result>>

\* a component whose reply has no source block is skipped and the loop goes on
GenerateOne_SkipFailed ==
    /\ pc = "generate"
    /\ idx <= Len(spec.components)
    /\ \E outs \in RunOutcomeSeqs, u \in RunUsages, reply \in ComponentReplies :
        LET call == Generate(outs)
            gen == GenerateComponent(spec.components[idx], reply)
        IN /\ CallLLM(call, u)
           /\ lastReply' = [to |-> "component", text |-> reply]
           /\ log' = Append(log, Event("llm:component", call.ok))
           /\ IF ~call.ok
              THEN /\ console' = ExceptException(console, call.error, "")
                   /\ pc' = "aborted"
                   /\ UNCHANGED <<fs, idx>>
              ELSE IF gen.error # "none"
              THEN /\ console' = ExceptException(console, gen.error, gen.name)
                   /\ idx' = idx + 1
                   /\ UNCHANGED <<fs, pc>>
              ELSE /\ fs' = WriteComponent(fs, gen)
                   /\ idx' = idx + 1
                   /\ UNCHANGED <<console, pc>>
    /\ UNCHANGED <<api_key, dirs, spec, attempt, build_success, build_result>>

\* generate_project, one iteration of `for component_spec in spec.components`
GenerateOne ==
    /\ pc = "generate"
    /\ idx <= Len(spec.components)
    /\ \E outs \in RunOutcomeSeqs, u \in RunUsages, reply \in ComponentReplies :
        LET call == Generate(outs)
            gen == GenerateComponent(spec.components[idx], reply)
        IN /\ CallLLM(call, u)
           /\ lastReply' = [to |-> "component", text |-> reply]
           /\ log' = Append(log, Event("llm:component", call.ok))
           /\ IF ~call.ok
              THEN /\ console' = ExceptException(console, call.error, "")
                   /\ pc' = "aborted"
                   /\ UNCHANGED <<fs, idx>>
              ELSE IF gen.error # "none"
              THEN /\ console' = ExceptException(console, gen.error, gen.name)
                   /\ pc' = "aborted"
                   /\ UNCHANGED <<fs, idx>>
              ELSE /\ fs' = WriteComponent(fs, gen)
                   /\ idx' = idx + 1
                   /\ UNCHANGED <<console, pc>>
    /\ UNCHANGED <<api_key, dirs, spec, attempt, build_success, build_result>>

\* generate_project after the loop: _update_app_component
UpdateApp ==
    /\ pc = "generate"
    /\ idx > Len(spec.components)
    /\ fs' = [fs EXCEPT ![AppPath] = AppText(spec.main_component)]
    /\ log' = Append(log, Event("app", TRUE))
    /\ pc' = "install"
    /\ NoLLM
    /\ UNCHANGED <<api_key, dirs, spec, idx, attempt, build_success, build_result,
                   console>>

\* what `npm install` can answer
InstallResults ==
    {[returncode |-> rc, out |-> <<PlainLine>>, seq |-> 0] : rc \in {0, 1}}

\* _display_metrics
DisplayMetrics(con) == Append(con, Msg("metrics", "Metrics", "", <<>>))

\* the exit code of the install is not looked at
InstallFailed_Ignored(rc) == FALSE

\* `if install_result.returncode != 0: ... raise click.Abort()`
InstallFailed(rc) == rc # 0

\* lines 263-271: npm install
Install ==
    /\ pc = "install"
    /\ \E r \in InstallResults :
        /\ log' = Append(log, Event("install", r.returncode = 0))
        /\ IF InstallFailed(r.returncode)
           THEN /\ console' = RaiseAbort(DisplayMetrics(Append(console,
                                Msg("install_error", "npm install failed", "",
                                    FirstN(r.out, InstallHeadChars)))))
                /\ pc' = "aborted"
           ELSE /\ console' = console
                /\ pc' = "build"
    /\ NoLLM
    /\ UNCHANGED <<api_key, dirs, fs, spec, idx, attempt, build_success,
                   build_result>>

\* what `npm run build` can answer, given the files: success, or failure
\* with diagnostics about them
BuildResults(f, n) ==
    {[returncode |-> 0, out |-> <<>>, seq |-> n]}
    \cup {[returncode |-> 1, out |-> o, seq |-> n] : o \in BuildOutputs(f)}

\* off by one: a repair is attempted after every failed build
ShouldRepair_Always(a) == a < max_attempts

\* `if attempt < max_attempts - 1`: a failed build is followed by a repair
ShouldRepair(a) == a < max_attempts - 1

\* the number of build invocations so far
Builds == Cardinality({i \in 1..Len(log) : log[i].ev = "build"})

\* the `break` is missing: a clean build is treated like a failed one
AfterBuild_NoBreak(rc, a) == IF ShouldRepair(a) THEN "repair" ELSE "report"

\* `while True` in place of the bounded `for`: a failed build is always
\* followed by a repair and another build
AfterBuild_NeverGivesUp(rc, a) == IF rc = 0 THEN "report" ELSE "repair"

\* where the loop goes after a build: `break` on exit code 0, the repair
\* when another attempt is allowed, else the end of the loop
AfterBuild(rc, a) ==
    IF rc = 0 THEN "report"
    ELSE IF ShouldRepair(a) THEN "repair"
    ELSE "report"

\* the first captured result is kept
Rebind_KeepFirst(old, new) == IF old.seq = 0 THEN new ELSE old

\* `build_result = _run_npm_command(...)`: each iteration rebinds the name
Rebind(old, new) == new

\* lines 278-287: one iteration of the build loop up to the repair decision
Build ==
    /\ pc = "build"
    /\ attempt < max_attempts
    /\ \E r \in BuildResults(fs, Builds + 1) :
        /\ build_result' = Rebind(build_result, r)
        /\ log' = Append(log, Event("build", r.returncode = 0))
        /\ build_success' = (build_success \/ r.returncode = 0)
        /\ pc' = AfterBuild(r.returncode, attempt)
    /\ NoLLM
    /\ UNCHANGED <<api_key, dirs, fs, spec, idx, attempt, console>>

\* the early `return True` is missing
AfterSimpleFix_NoReturn(applied) == "llm_fix"

\* `if _attempt_simple_typescript_fix(...): return True`, else the LLM fix
AfterSimpleFix(applied) == IF applied THEN "build" ELSE "llm_fix"

\* _attempt_build_fix, first part: the deterministic fix (lines 126-128)
SimpleFix ==
    /\ pc = "repair"
    /\ LET r == AttemptSimpleTypescriptFix(fs, build_result.out)
       IN /\ fs' = r.fs
          /\ log' = Append(log, Event("simple_fix", r.applied))
          /\ pc' = AfterSimpleFix(r.applied)
          /\ attempt' = IF pc' = "build" THEN attempt + 1 ELSE attempt
    /\ NoLLM
    /\ UNCHANGED <<api_key, dirs, spec, idx, build_success, build_result, console>>

\* the exception raised inside the fix leaves _attempt_build_fix and reaches
\* the handler of generate
AfterLlmFix_Propagate(failed) == IF failed THEN "aborted" ELSE "build"

\* a fix that failed inside is tried again without a build in between
AfterLlmFix_Retry(failed) == IF failed THEN "repair" ELSE "build"

\* `except Exception as e:` prints a warning and falls through to
\* `return False`: the loop goes on to its next iteration either way
AfterLlmFix(failed) == "build"

\* `if not fix_applied:` prints a warning (lines 295-296)
FixWarning(con, applied) ==
    IF applied THEN con
    ELSE Append(con, Msg("warning", "Could not auto-fix, retrying...", "", <<>>))

\* _attempt_build_fix, second part: the LLM-assisted fix (lines 130-174)
LlmFix ==
    /\ pc = "llm_fix"
    /\ \E outs \in RunOutcomeSeqs, u \in RunUsages, reply \in FixReplies :
        LET call == Generate(outs)
        IN /\ CallLLM(call, u)
           /\ lastReply' = [to |-> "fix", text |-> reply]
           /\ \E r \in {AttemptLlmFix(fs, call, reply)} :
                 /\ fs' = r.fs
                 /\ log' = Append(log, Event("llm:fix", r.applied))
                 /\ console' = FixWarning(console, r.applied)
                 /\ pc' = AfterLlmFix(r.failed)
    /\ attempt' = attempt + 1
    /\ UNCHANGED <<api_key, dirs, spec, idx, build_success, build_result>>

\* the flag is not looked at: success is reported after the loop
Report_AlwaysSuccess ==
    /\ pc = "report"
    /\ console' = Append(console,
                     Msg("success", "Project created and validated successfully!",
                         "", <<>>))
    /\ pc' = "done"
    /\ NoLLM
    /\ UNCHANGED <<api_key, dirs, fs, spec, idx, attempt, build_success,
                   build_result, log>>

\* lines 298-342: the report after the loop
Report ==
    /\ pc = "report"
    /\ IF build_success
       THEN /\ console' = Append(console,
                            Msg("success", "Project created and validated successfully!",
                                "", <<>>))
            /\ pc' = "done"
       ELSE /\ console' = RaiseAbort(DisplayMetrics(Append(console,
                            BuildErrorsMsg(build_result))))
            /\ pc' = "aborted"
    /\ NoLLM
    /\ UNCHANGED <<api_key, dirs, fs, spec, idx, attempt, build_success,
                   build_result, log>>

Next ==
    \/ CheckCredential
    \/ ParseRequirements
    \/ Scaffold
    \/ GenerateOne
    \/ UpdateApp
    \/ Install
    \/ Build
    \/ SimpleFix
    \/ LlmFix
    \/ Report

Spec == Init /\ [][Next]_vars

(***************************************************************************)
(* SpecGateway: one ClaudeClient, its calls taken request by request.  A   *)
(* caller makes up to MaxCalls calls of generate or generate_structured;   *)
(* the service answers each request with any outcome.                      *)
(***************************************************************************)
\* the parsed JSON values a structured reply may carry
StructJsons == {[kind |-> k] : k \in {"object", "array", "invalid"}}

StructReplies == [wrap : Wraps, json : StructJsons]

\* get_token_usage
GetTokenUsage(inp, out) ==
    [input_tokens |-> inp, output_tokens |-> out, total_tokens |-> inp + out]

InitGateway ==
    /\ pc = "gateway"
    /\ api_key = TRUE
    /\ dirs = {}
    /\ fs = FreshFs
    /\ spec = NoSpec
    /\ idx = 1
    /\ attempt = 0
    /\ build_success = FALSE
    /\ build_result = NoResult
    /\ input_tokens = 0
    /\ output_tokens = 0
    /\ log = <<>>
    /\ console = <<>>
    /\ lastCall = NoCall
    /\ lastReply = NoReply
    /\ gw = GwIdle

\* a caller enters generate, directly or through generate_structured
GwGenerate ==
    /\ pc = "gateway"
    /\ gw.phase = "idle"
    /\ gw.calls < MaxCalls
    /\ \E st \in BOOLEAN :
          gw' = [gw EXCEPT !.phase = "loop", !.structured = st, !.attempt = 0,
                           !.fails = <<>>, !.sleeps = <<>>, !.raised = <<>>,
                           !.value = "none", !.calls = @ + 1,
                           !.base = Len(gw.reqs)]
    /\ lastCall' = NoCall
    /\ lastReply' = NoReply
    /\ UNCHANGED <<pc, api_key, dirs, fs, spec, idx, attempt, build_success,
                   build_result, input_tokens, output_tokens, log, console>>

\* messages.create answered: the usage is counted and generate returns the
\* text; generate_structured then parses it
GwSuccess(u, reply) ==
    LET st == GenerateStructured(reply)
    IN /\ input_tokens' = AddUsage(input_tokens, u.inp)
       /\ output_tokens' = AddUsage(output_tokens, u.out)
       /\ gw' = [gw EXCEPT
                   !.phase = "idle",
                   !.reqs = Append(@, [ok |-> TRUE, inp |-> u.inp, out |-> u.out]),
                   !.value = IF ~gw.structured THEN "text"
                             ELSE IF st.ok THEN st.value.kind ELSE "none",
                   !.raised = IF gw.structured /\ ~st.ok
                              THEN <<[error |-> st.error, raw |-> ReplyText(reply)]>>
                              ELSE <<>>]
       /\ lastCall' = [ok |-> TRUE, requests |-> gw.attempt + 1,
                       sleeps |-> gw.sleeps, error |-> "none"]
       /\ lastReply' = IF gw.structured
                       THEN [to |-> "structured", text |-> reply]
                       ELSE NoReply

\* messages.create raised: one of the except clauses sleeps and lets the loop
\* go on, or the error leaves generate
GwFailure(o) ==
    /\ UNCHANGED <<input_tokens, output_tokens>>
    /\ lastReply' = NoReply
    /\ IF o \in Caught /\ MayRetry(gw.attempt)
       THEN /\ gw' = [gw EXCEPT
                        !.attempt = @ + 1,
                        !.fails = Append(@, o),
                        !.sleeps = Append(@, WaitTime(o, gw.attempt)),
                        !.reqs = Append(@, [ok |-> FALSE, inp |-> 0, out |-> 0])]
            /\ lastCall' = NoCall
       ELSE \E e \in Raises(o) :
            /\ gw' = [gw EXCEPT
                        !.phase = "idle",
                        !.fails = Append(@, o),
                        !.raised = <<[error |-> e, raw |-> <<>>]>>,
                        !.reqs = Append(@, [ok |-> FALSE, inp |-> 0, out |-> 0])]
            /\ lastCall' = [ok |-> FALSE, requests |-> gw.attempt + 1,
                            sleeps |-> gw.sleeps, error |-> e]

\* one iteration of `for attempt in range(self.max_retries)`
GwRequest ==
    /\ pc = "gateway"
    /\ gw.phase = "loop"
    /\ gw.attempt < max_retries
    /\ \E o \in Outcomes :
          IF o = "ok"
          THEN \E u \in Usages, reply \in StructReplies : GwSuccess(u, reply)
          ELSE GwFailure(o)
    /\ UNCHANGED <<pc, api_key, dirs, fs, spec, idx, attempt, build_success,
                   build_result, log, console>>

\* reset_token_usage
GwReset ==
    /\ pc = "gateway"
    /\ gw.phase = "idle"
    /\ gw.resets < MaxResets
    /\ input_tokens + output_tokens > 0
    /\ input_tokens' = 0
    /\ output_tokens' = 0
    /\ gw' = [gw EXCEPT !.resets = @ + 1]
    /\ UNCHANGED <<pc, api_key, dirs, fs, spec, idx, attempt, build_success,
                   build_result, log, console, lastCall, lastReply>>

NextGateway ==
    \/ GwGenerate
    \/ GwRequest
    \/ GwReset

SpecGateway == InitGateway /\ [][NextGateway]_vars

(***************************************************************************)
(* SpecLive: the run of generate and the calls of a ClaudeClient taken     *)
(* request by request, side by side, under the assumption that every       *)
(* external call returns: a step of the run that can be taken is taken,    *)
(* and a request that was sent is answered.                                *)
(***************************************************************************)
\* the runs SpecLive follows: a project of at most one component described
\* in a bare parse reply, and one call of the gateway without a reset
LiveScope ==
    /\ Len(spec.components) <= 1
    /\ lastReply.to = "parse" => lastReply.text.wrap = "bare"
    /\ gw.calls <= 1
    /\ gw.resets = 0

InitLive == Init \/ InitGateway

RunStep == Next /\ LiveScope'

GatewayStep == NextGateway /\ LiveScope'

NextLive == RunStep \/ GatewayStep

SpecLive ==
    InitLive /\ [][NextLive]_vars /\ WF_vars(RunStep) /\ WF_vars(GwRequest)

(***************************************************************************)
(* SpecRerun: generate is run again on the output path an ended run left,  *)
(* up to MaxRuns runs in all.  Each run is a new process: a new client,    *)
(* new counters, an empty console.  The log keeps one "run" marker per     *)
(* ended run, followed by the events of the current run.                   *)
(***************************************************************************)
IsRunMarker(e) == e.ev = "run"

RunMarkers == {i \in 1..Len(log) : IsRunMarker(log[i])}

\* scaffolding succeeded in the current run
Scaffolded == \E i \in 1..Len(log) : log[i] = Event("scaffold", TRUE)

\* an earlier run failed after it had scaffolded the output directory
LaterRun == \E i \in RunMarkers : log[i].ok

\* the handlers remove the output directory of a failed run
LeftDirs_CleanedUp(d) == d \ ScaffoldDirs

\* the directories an ended run leaves: the handlers `except FileExistsError`
\* and `except Exception` print and exit, nothing is removed
LeftDirs(d) == d

\* a later invocation of generate with the same output path
Rerun ==
    /\ pc \in {"done", "aborted"}
    /\ Cardinality(RunMarkers) + 1 < MaxRuns
    /\ pc' = "start"
    /\ api_key' \in BOOLEAN
    /\ dirs' = LeftDirs(dirs)
    /\ fs' = fs
    /\ spec' = NoSpec
    /\ idx' = 1
    /\ attempt' = 0
    /\ build_success' = FALSE
    /\ build_result' = NoResult
    /\ input_tokens' = 0
    /\ output_tokens' = 0
    /\ log' = Append(SelectSeq(log, IsRunMarker),
                     Event("run", (pc = "aborted" /\ Scaffolded) \/ LaterRun))
    /\ console' = <<>>
    /\ lastCall' = NoCall
    /\ lastReply' = NoReply
    /\ gw' = gw

NextRerun == RunStep \/ Rerun

SpecRerun == Init /\ [][NextRerun]_vars

(***************************************************************************)
(* Properties.                                                             *)
(***************************************************************************)
IsBuild(e) == e.ev = "build"

IsFix(e) == e.ev \in {"simple_fix", "llm:fix"}

IsLLM(e) == e.ev \in {"llm:parse", "llm:component", "llm:fix"}

\* the number of build invocations among the first n events
BuildsBefore(n) == Cardinality({i \in 1..n : IsBuild(log[i])})

Installs == Cardinality({i \in 1..Len(log) : log[i].ev = "install"})

Printed(kind) == \E i \in 1..Len(console) : console[i].kind = kind

PrintedError(text) ==
    \E i \in 1..Len(console) : console[i].kind = "error" /\ console[i].text = text

\* C1: the build command is invoked at most max_attempts times in a run, and
\* no fix, deterministic or LLM-assisted, is attempted once the last allowed
\* build invocation has been made.
C1_BoundedBuilds ==
    /\ Builds <= max_attempts
    /\ \A i \in 1..Len(log) : IsFix(log[i]) => BuildsBefore(i) < max_attempts

\* C1 witness: all allowed builds were used and failed, and the run ended
C1_Witness ==
    /\ pc = "aborted"
    /\ Builds = max_attempts
    /\ ~log[Len(log)].ok /\ IsBuild(log[Len(log)])

\* C2: npm install runs exactly once in a run that reaches the install step;
\* when it exits non-zero the run ends in failure at once: the install is the
\* last external action (no retry, no build, no fix, no further LLM call).
C2_InstallOnceFatal ==
    /\ Installs <= 1
    /\ pc \in {"build", "repair", "llm_fix", "report", "done"} => Installs = 1
    /\ \A i \in 1..Len(log) :
          (log[i].ev = "install" /\ ~log[i].ok) =>
             /\ i = Len(log)
             /\ pc = "aborted"
             /\ Printed("install_error")
    /\ \A i \in 1..Len(log) :
          (IsBuild(log[i]) \/ IsFix(log[i])) =>
             \E j \in 1..(i - 1) : log[j].ev = "install" /\ log[j].ok

\* C2 witness: the install failed and the run is over
C2_Witness ==
    /\ pc = "aborted"
    /\ log # <<>>
    /\ log[Len(log)] = Event("install", FALSE)

\* C3: once a build invocation exits 0 the loop is in Success, which is
\* terminal: that build is the last external action (no further build, no
\* fix), the success flag is set, and the run goes on to report success.
C3_SuccessTerminal ==
    \A i \in 1..Len(log) :
        (IsBuild(log[i]) /\ log[i].ok) =>
           /\ i = Len(log)
           /\ build_success
           /\ pc \in {"report", "done"}
           /\ pc = "report" => ENABLED Report
           /\ pc = "done" => console[Len(console)].kind = "success"

\* C3 witness: success reported after a repaired build
C3_Witness ==
    /\ pc = "done"
    /\ Builds = 2
    /\ Printed("success")

\* C4: when all max_attempts build invocations exit non-zero the run ends in
\* failure, never in success, and the build output it prints is the captured
\* output of the last invocation.
C4_ExhaustedReportsLast ==
    (/\ Builds = max_attempts
     /\ \A i \in 1..Len(log) : IsBuild(log[i]) => ~log[i].ok
     /\ pc \notin {"report"})
    => /\ pc = "aborted"
       /\ ~Printed("success")
       /\ \E i \in 1..Len(console) :
             /\ console[i].kind = "build_errors"
             /\ console[i].seq = max_attempts
             /\ console[i].lines = LastN(build_result.out, BuildTailChars)
             /\ build_result.seq = max_attempts

\* C4 witness: the third failure was reported
C4_Witness ==
    /\ pc = "aborted"
    /\ Builds = max_attempts
    /\ Printed("build_errors")
    /\ build_result.out # <<PlainLine>>

\* C5: in every repair the deterministic fix comes first and at most one
\* strategy runs: the LLM fixer is called exactly when the deterministic fix
\* applied nothing; after a deterministic fix the next action is a build.
C5_SimpleFixFirst ==
    /\ \A i \in 1..Len(log) :
          log[i].ev = "llm:fix" => (i > 1 /\ log[i - 1] = Event("simple_fix", FALSE))
    /\ \A i \in 1..Len(log) :
          log[i].ev = "simple_fix" =>
             /\ i > 1 /\ log[i - 1] = Event("build", FALSE)
             /\ IF log[i].ok
                THEN IF i = Len(log) THEN pc = "build" ELSE IsBuild(log[i + 1])
                ELSE IF i = Len(log) THEN pc = "llm_fix" ELSE log[i + 1].ev = "llm:fix"

\* C5 witness: one repair by the deterministic fix, one by the LLM fixer
C5_Witness ==
    /\ \E i \in 1..(Len(log) - 1) : log[i] = Event("simple_fix", TRUE) /\ IsBuild(log[i + 1])
    /\ \E i \in 1..(Len(log) - 1) : log[i] = Event("simple_fix", FALSE) /\ log[i + 1].ev = "llm:fix"

\* new is old with exactly one occurrence of v replaced by _v
OneRenamed(old, new, v) ==
    /\ Len(new) = Len(old)
    /\ \E i \in 1..Len(old) :
          /\ old[i] = v
          /\ new[i] = [id |-> v.id, us |-> v.us + 1]
          /\ \A j \in (1..Len(old)) \ {i} : new[j] = old[j]

\* C6: when the build output holds a TS6133 diagnostic for identifier x with
\* its file reference, the deterministic fixer renames exactly one occurrence
\* of x to _x in that file, changes no other file, reports success, and the
\* LLM fixer is not invoked (the loop goes back to the build).
C6_RenamesInNamedFile ==
    [][ pc = "repair" =>
          \A k \in 1..Len(build_result.out) :
             LET l == build_result.out[k]
             IN (HasUnused(l) /\ HasRef(l)) =>
                   /\ log' = Append(log, Event("simple_fix", TRUE))
                   /\ pc' = "build"
                   /\ OneRenamed(fs[TsxPath(l.ref)], fs'[TsxPath(l.ref)], l.var)
                   /\ \A p \in Paths \ {TsxPath(l.ref)} : fs'[p] = fs[p] ]_vars

FileExistsText == "FileExistsError: Output directory already exists"

\* C7: create_project on an output path that exists fails with
\* FileExistsError and changes nothing: no directory is created and no file
\* is written, rendered or copied.
C7_ExistingOutputUntouched ==
    [][ (pc = "scaffold" /\ OutputExists(dirs)) =>
          /\ pc' = "aborted"
          /\ fs' = fs
          /\ dirs' = dirs
          /\ log' = log
          /\ Len(console') = Len(console) + 2
          /\ console'[Len(console) + 1].kind = "error"
          /\ console'[Len(console) + 1].text = FileExistsText ]_vars

\* C7 witness: the scaffolder refused an existing output directory
C7_Witness ==
    /\ pc = "aborted"
    /\ PrintedError(FileExistsText)
    /\ Printed("hint")

\* the files are those found at the start of the run
NothingWritten == fs = IF OutputExists(dirs) THEN OldFs ELSE FreshFs

NoLLMCall == \A i \in 1..Len(log) : ~IsLLM(log[i])

\* C8 as stated: a missing credential and a pre-existing output directory
\* each abort the run before any LLM request is issued and any file written.
C8_AbortBeforeAnyWork ==
    (pc = "aborted" /\ (PrintedError("Anthropic API key required")
                        \/ PrintedError(FileExistsText)))
    => /\ NoLLMCall
       /\ input_tokens = 0 /\ output_tokens = 0
       /\ NothingWritten

\* C8, what the code does: without a credential the run never issues an LLM
\* request and never writes; with a pre-existing output directory the run
\* aborts after the parse call (the only LLM call, which succeeded and was
\* paid for), before any component call, with no file written.
C8_AbortBeforeGeneration ==
    /\ ~api_key =>
          /\ pc \in {"start", "aborted"}
          /\ log = <<>>
          /\ input_tokens = 0 /\ output_tokens = 0
          /\ NothingWritten
          /\ pc = "aborted" => PrintedError("Anthropic API key required")
    /\ (pc = "aborted" /\ PrintedError(FileExistsText)) =>
          /\ log = <<Event("llm:parse", TRUE)>>
          /\ input_tokens > 0 /\ output_tokens > 0
          /\ fs = OldFs
          /\ dirs = {RootDir}

\* C8 failing case: the run was aborted by the existing output directory
\* after its parse call
C8_Witness ==
    /\ pc = "aborted"
    /\ PrintedError(FileExistsText)
    /\ log = <<Event("llm:parse", TRUE)>>
    /\ lastCall = NoCall

\* the components whose source and stylesheet both exist
GeneratedPairs ==
    {n \in CompNames : Exists(fs, TsxPath(n)) /\ Exists(fs, CssPath(n))}

HalfPairs ==
    {n \in CompNames : Exists(fs, TsxPath(n)) # Exists(fs, CssPath(n))}

\* text holds the keyword followed by the name
Mentions(text, keyword, name) ==
    \E i \in 1..(Len(text) - 2) : text[i] = Tok(keyword) /\ text[i + 2] = Tok(name)

AppWiresMain ==
    /\ Exists(fs, AppPath)
    /\ Mentions(fs[AppPath], "import", spec.main_component)
    /\ Mentions(fs[AppPath], "render", spec.main_component)

\* C9 as stated: after generate_project the components directory holds
\* exactly N generated source+stylesheet pairs for a ProjectSpec with N
\* components, and App.tsx imports and renders the root component.
C9_ExactlyNPairs ==
    pc = "install" =>
       /\ Cardinality(GeneratedPairs) = Len(spec.components)
       /\ HalfPairs = {}
       /\ AppWiresMain

\* C9, what the code does: the pairs are those of the distinct component
\* names (a component with the name of an earlier one overwrites its pair),
\* so there are exactly N of them when the N names are pairwise distinct;
\* App.tsx imports and renders the root component.
C9_PairPerName ==
    pc = "install" =>
       /\ GeneratedPairs = Range(spec.components)
       /\ HalfPairs = {}
       /\ Cardinality(Range(spec.components)) = Len(spec.components)
             => Cardinality(GeneratedPairs) = Len(spec.components)
       /\ AppWiresMain

\* C9 failing case: two components of one name were generated and one pair
\* is left
C9_Witness ==
    /\ pc = "install"
    /\ Len(spec.components) = 2
    /\ spec.components[1] = spec.components[2]
    /\ Cardinality(GeneratedPairs) = 1
    /\ AppWiresMain

NoBlock(reply, lang) == \A i \in 1..Len(reply) : reply[i].lang # lang

\* C10: generate_component fails with an error naming the component when the
\* reply has no tsx block, with or without a css block; with a tsx block and
\* no css block it succeeds with the placeholder stylesheet.
C10_SourceRequiredCssOptional ==
    [][ (pc = "generate" /\ lastReply'.to = "component" /\ lastCall'.ok) =>
          LET reply == lastReply'.text
              name == spec.components[idx]
          IN /\ NoBlock(reply, "tsx") =>
                   /\ pc' = "aborted"
                   /\ fs' = fs
                   /\ console' = Append(console,
                         [kind |-> "error", text |-> "ValueError: Failed to extract TSX code",
                          name |-> name, lines |-> <<>>, seq |-> 0])
             /\ (~NoBlock(reply, "tsx") /\ NoBlock(reply, "css")) =>
                   /\ pc' = "generate"
                   /\ idx' = idx + 1
                   /\ Exists(fs', TsxPath(name))
                   /\ fs'[CssPath(name)] =
                         <<Tok("/* Styles for"), WS, Tok(name), WS, Tok("*/")>> ]_vars

\* C10 witness: a reply with a source block and no stylesheet was accepted
C10_Witness ==
    /\ pc = "generate"
    /\ lastReply.to = "component"
    /\ lastCall.ok
    /\ NoBlock(lastReply.text, "css")
    /\ \E n \in CompNames :
          fs[CssPath(n)] = <<Tok("/* Styles for"), WS, Tok(n), WS, Tok("*/")>>

TsxErrorText == "ValueError: Failed to extract TSX code"

\* the events of the given kinds in the log
EventsOf(kinds) == {i \in 1..Len(log) : log[i].ev \in kinds}

\* the paths that exist
Existing == {p \in Paths : Exists(fs, p)}

\* the source and stylesheet paths of the first n components
PairsOfFirst(n) ==
    UNION {{TsxPath(spec.components[i]), CssPath(spec.components[i])} : i \in 1..n}

\* C11: when the reply for the k-th component lacks the source block the run
\* is aborted at that component: the component call is its last external
\* action (k component calls in all; no App.tsx, install, build or fix), and
\* the only generated files are the pairs of the k-1 components before it.
C11_AbortAtComponent ==
    PrintedError(TsxErrorText) =>
       /\ pc = "aborted"
       /\ idx \in 1..Len(spec.components)
       /\ console[Len(console)].name = spec.components[idx]
       /\ Cardinality(EventsOf({"llm:component"})) = idx
       /\ log[Len(log)] = Event("llm:component", TRUE)
       /\ EventsOf({"app", "install", "build", "simple_fix", "llm:fix"}) = {}
       /\ ~Exists(fs, AppPath)
       /\ Existing = ScaffoldPaths \cup {OutsidePath} \cup PairsOfFirst(idx - 1)

\* C11 witness: the second of two differently named components had no source
\* block; the pair of the first one is all that was generated
C11_Witness ==
    /\ pc = "aborted"
    /\ PrintedError(TsxErrorText)
    /\ idx = 2
    /\ spec.components[1] # spec.components[2]
    /\ Exists(fs, TsxPath(spec.components[1]))
    /\ ~Exists(fs, TsxPath(spec.components[2]))

\* the requests issued by the call in progress, or by the last call
CallRequests == Len(gw.reqs) - gw.base

\* C12: one generate call issues at most max_retries requests whatever the
\* failures are; a rate-limit or connection failure on attempt k (0-based)
\* that is not the last allowed attempt is followed by a wait of 2^k seconds,
\* and the failure of the last allowed attempt by no wait: the error leaves
\* generate.
C12_BoundedRequestsBackoff ==
    /\ CallRequests <= max_retries
    /\ Len(gw.sleeps) <= max_retries - 1
    /\ \A k \in 0..(Len(gw.fails) - 1) :
          gw.fails[k + 1] \in {"rate", "conn"} =>
             IF k < max_retries - 1
             THEN /\ Len(gw.sleeps) >= k + 1
                  /\ gw.sleeps[k + 1] = 2 ^ k
             ELSE /\ Len(gw.sleeps) = k
                  /\ gw.phase = "idle"
                  /\ Len(gw.raised) = 1

\* C12 witness: three requests failed, waits of 1 and 2 seconds between them
C12_Witness ==
    /\ gw.fails = <<"rate", "conn", "rate">>
    /\ gw.sleeps = <<1, 2>>
    /\ CallRequests = max_retries
    /\ gw.phase = "idle"

\* the call went on after its k-th request: the next request is due or made
Retried(k) == CallRequests > k \/ (CallRequests = k /\ gw.phase = "loop")

\* the k-th request failed and its error left generate at once
Propagated(k) ==
    /\ CallRequests = k
    /\ gw.phase = "idle"
    /\ Len(gw.raised) = 1
    /\ Len(gw.sleeps) = k - 1

\* C13 as stated: only rate-limit and connection failures are retried; any
\* other failure of a request, a generic API failure included, propagates at
\* once with no further request.
C13_OnlyRateConnRetried ==
    \A k \in 1..Len(gw.fails) :
       gw.fails[k] \notin {"rate", "conn"} => Propagated(k)

\* C13 amended: a generic API failure is retried like the other two, after
\* a wait of one second, unless it is the last allowed attempt; only a
\* failure that is not an API error propagates at once.
C13_ApiErrorsRetried ==
    \A k \in 1..Len(gw.fails) :
       /\ gw.fails[k] = "other" =>
             /\ Propagated(k)
             /\ gw.raised[1].error = "Exception: not an API error"
             /\ gw.raised[1].raw = <<>>
       /\ (gw.fails[k] = "api" /\ k < max_retries) =>
             /\ Retried(k)
             /\ gw.sleeps[k] = 1
       /\ (gw.fails[k] \in {"rate", "conn", "api"} /\ k = max_retries) =>
             Propagated(k)

\* C13 witness: a generic API failure was retried, then a failure that is
\* not an API error left generate at once
C13_Witness ==
    /\ gw.fails = <<"api", "other">>
    /\ gw.sleeps = <<1>>
    /\ gw.phase = "idle"
    /\ Len(gw.raised) = 1

\* the call made every allowed request and the last one failed
Exhausted ==
    /\ gw.phase = "idle"
    /\ Len(gw.fails) = max_retries
    /\ gw.fails[max_retries] \in {"rate", "conn", "api"}

\* the error message names the failure class
Identifies(error, kind) ==
    CASE kind = "rate" ->
            error = "APIError: Rate limit exceeded after max_retries attempts"
      [] kind = "conn" ->
            error = "APIError: Connection failed after max_retries attempts"
      [] OTHER -> error = "APIError: api error"

\* C14: when generate exhausts its retries it surfaces exactly one terminal
\* error, and that error identifies the class (rate-limited, connection,
\* generic API failure) of the failure that exhausted the retries.
C14_TerminalErrorNamesClass ==
    Exhausted =>
       /\ Len(gw.raised) = 1
       /\ Identifies(gw.raised[1].error, gw.fails[max_retries])

\* C14, what the code does: exactly one error leaves generate; after a
\* generic API failure it is that failure, after a rate-limit or connection
\* failure it names the class only if the new APIError could be built.
C14_SingleTerminalError ==
    Exhausted =>
       /\ Len(gw.raised) = 1
       /\ lastCall.error = gw.raised[1].error
       /\ gw.fails[max_retries] = "api" => gw.raised[1].error = "APIError: api error"
       /\ gw.raised[1].error # ConstructorError =>
             Identifies(gw.raised[1].error, gw.fails[max_retries])

\* C14 failing case: the retries ended on a rate-limit failure and the error
\* that left generate is the constructor's
C14_Witness ==
    /\ Exhausted
    /\ gw.fails[max_retries] = "rate"
    /\ gw.raised = <<[error |-> ConstructorError, raw |-> <<>>]>>

\* the sum of a usage field over the successful requests among the first n
RECURSIVE SumOk(_, _, _)
SumOk(reqs, field, n) ==
    IF n = 0 THEN 0
    ELSE SumOk(reqs, field, n - 1) + (IF reqs[n].ok THEN reqs[n][field] ELSE 0)

\* C15: a successful request adds exactly its reported input and output
\* token counts to the counters and a failed request leaves both unchanged;
\* without a reset each counter is the sum over the successful requests and
\* never decreases, and total_tokens is input_tokens + output_tokens.
C15_TokenAccounting ==
    /\ [](gw.resets = 0 =>
             /\ input_tokens = SumOk(gw.reqs, "inp", Len(gw.reqs))
             /\ output_tokens = SumOk(gw.reqs, "out", Len(gw.reqs))
             /\ GetTokenUsage(input_tokens, output_tokens) =
                   [input_tokens |-> SumOk(gw.reqs, "inp", Len(gw.reqs)),
                    output_tokens |-> SumOk(gw.reqs, "out", Len(gw.reqs)),
                    total_tokens |-> SumOk(gw.reqs, "inp", Len(gw.reqs))
                                     + SumOk(gw.reqs, "out", Len(gw.reqs))])
    /\ [][ /\ Len(gw'.reqs) = Len(gw.reqs) + 1 =>
               LET r == gw'.reqs[Len(gw'.reqs)]
               IN IF r.ok
                  THEN /\ input_tokens' = input_tokens + r.inp
                       /\ output_tokens' = output_tokens + r.out
                  ELSE /\ input_tokens' = input_tokens
                       /\ output_tokens' = output_tokens
            /\ gw'.resets = gw.resets =>
                  /\ input_tokens' >= input_tokens
                  /\ output_tokens' >= output_tokens ]_vars

\* C15 witness: two calls, the first a generate that succeeded on its second
\* request, the second a generate_structured whose reply did not parse; the
\* counters hold the usage of both successful requests
C15_Witness ==
    /\ gw.resets = 0
    /\ gw.calls = 2
    /\ gw.phase = "idle"
    /\ Len(gw.reqs) = 3
    /\ ~gw.reqs[1].ok /\ gw.reqs[2].ok /\ gw.reqs[3].ok
    /\ gw.structured /\ Len(gw.raised) = 1
    /\ input_tokens = gw.reqs[2].inp + gw.reqs[3].inp
    /\ output_tokens = gw.reqs[2].out + gw.reqs[3].out
    /\ gw.reqs[2].inp # gw.reqs[3].inp

\* the last call was a generate_structured whose request was answered
StructuredAnswered ==
    /\ gw.phase = "idle"
    /\ gw.structured
    /\ lastReply.to = "structured"

\* C16: generate_structured returns the parsed value for a bare JSON object,
\* a bare JSON array, and a JSON object or array inside a fenced json block,
\* with or without prose around the fence.
C16_AcceptsObjectsAndArrays ==
    (/\ StructuredAnswered
     /\ lastReply.text.json.kind \in {"object", "array"}
     /\ lastReply.text.wrap \in {"bare", "fenced", "fenced+prose"})
    => /\ gw.raised = <<>>
       /\ gw.value = lastReply.text.json.kind

\* C16, what the code does: bare objects, bare arrays and fenced objects are
\* parsed (prose around the fence is ignored); a fenced array, like prose
\* around bare JSON, is handed to json.loads with its fence and fails with
\* the ValueError that carries the raw reply.
C16_FencedArraysRejected ==
    StructuredAnswered =>
       LET kind == lastReply.text.json.kind
           wrap == lastReply.text.wrap
           accepted == /\ kind \in {"object", "array"}
                       /\ \/ wrap = "bare"
                          \/ wrap \in {"fenced", "fenced+prose"} /\ kind = "object"
       IN IF accepted
          THEN gw.raised = <<>> /\ gw.value = kind
          ELSE /\ gw.value = "none"
               /\ gw.raised = <<[error |-> "ValueError: Failed to parse JSON response",
                                 raw |-> ReplyText(lastReply.text)]>>

\* C16 failing case: a JSON array inside a fenced json block was rejected
C16_Witness ==
    /\ StructuredAnswered
    /\ lastReply.text = [wrap |-> "fenced", json |-> [kind |-> "array"]]
    /\ gw.value = "none"
    /\ Len(gw.raised) = 1

JsonErrorText == "ValueError: Failed to parse JSON response"

\* the reply of the last generate_structured call did not parse as JSON
MalformedReply ==
    /\ StructuredAnswered
    /\ JsonLoads(JsonStr(ReplyText(lastReply.text))) = "invalid"

\* C17: a structured reply that does not parse as JSON is retried by the
\* gateway like a rate-limit or connection failure; the descriptive error,
\* which carries the raw reply, is surfaced only once the max_retries
\* requests of the call are used up.
C17_MalformedRetried ==
    MalformedReply =>
       /\ gw.raised = <<[error |-> JsonErrorText, raw |-> ReplyText(lastReply.text)]>>
       /\ CallRequests = max_retries

\* C17, what the code does: the first reply that does not parse ends the call
\* with the descriptive error carrying the raw reply, whatever number of
\* requests is left; the request that brought it was answered and counted.
C17_MalformedFailsAtOnce ==
    MalformedReply =>
       /\ gw.raised = <<[error |-> JsonErrorText, raw |-> ReplyText(lastReply.text)]>>
       /\ gw.value = "none"
       /\ gw.reqs[Len(gw.reqs)].ok
       /\ \A k \in (gw.base + 1)..(Len(gw.reqs) - 1) : ~gw.reqs[k].ok

\* C17 failing case: the first request of a generate_structured call was
\* answered with text that is not JSON and the call ended with the error
C17_Witness ==
    /\ MalformedReply
    /\ lastReply.text.json.kind = "invalid"
    /\ CallRequests = 1
    /\ Len(gw.raised) = 1

ParseErrorText == "ValueError: Failed to parse requirements"

\* the parse call was answered with a complete ProjectSpec object that
\* generate_structured can extract
UsableParseReply ==
    /\ lastCall.ok
    /\ lastReply.text.json.kind = "object"
    /\ lastReply.text.json.complete
    /\ lastReply.text.wrap \in {"bare", "fenced", "fenced+prose"}

\* C18: parse makes exactly one structured-generation call; when the call
\* fails or the returned value does not validate as a ProjectSpec the run
\* gets one descriptive parse error and no second call is made.
C18_ParseOnce ==
    /\ Cardinality(EventsOf({"llm:parse"})) <= 1
    /\ pc \in {"scaffold", "generate", "install", "build", "repair", "llm_fix",
                "report", "done"}
          => /\ log # <<>> /\ log[1] = Event("llm:parse", TRUE)
             /\ spec \in ProjectSpecs
             /\ ~PrintedError(ParseErrorText)
    /\ lastReply.to = "parse" =>
          IF UsableParseReply
          THEN pc = "scaffold" /\ spec = lastReply.text.json.val /\ console = <<>>
          ELSE /\ pc = "aborted"
               /\ spec = NoSpec
               /\ log = <<Event("llm:parse", lastCall.ok)>>
               /\ console = <<[kind |-> "error", text |-> ParseErrorText,
                                name |-> "", lines |-> <<>>, seq |-> 0]>>
    /\ PrintedError(ParseErrorText) =>
          /\ pc = "aborted"
          /\ Cardinality(EventsOf({"llm:parse"})) = 1
          /\ Len(log) = 1

\* C18 witness: the call returned an object that is not a ProjectSpec and
\* the run ended with the parse error after that one call
C18_Witness ==
    /\ pc = "aborted"
    /\ lastReply.to = "parse"
    /\ lastCall.ok
    /\ lastReply.text = [wrap |-> "bare",
                         json |-> [kind |-> "object", complete |-> FALSE, val |-> NoSpec]]
    /\ PrintedError(ParseErrorText)
    /\ log = <<Event("llm:parse", TRUE)>>

\* the printed messages that report an error
ErrorReports ==
    {i \in 1..Len(console) :
        console[i].kind \in {"error", "install_error", "build_errors"}}

\* the lines `Error: ` printed with an empty message
EmptyErrors == {i \in ErrorReports : console[i].text = ""}

\* C19: a run that ends in failure (missing credential, parse failure,
\* existing output path, generation failure, install failure, build
\* exhaustion) emits exactly one error report.
C19_SingleErrorReport ==
    pc = "aborted" => Cardinality(ErrorReports) = 1

\* C19, what the code does: the failure is reported once, and when the run
\* reported it itself and raised click.Abort inside the try block (missing
\* credential, install failure, build exhaustion) the handler
\* `except Exception` prints a second, empty `Error: ` line.
C19_ReportThenEmptyError ==
    pc = "aborted" =>
       /\ Cardinality(ErrorReports \ EmptyErrors) = 1
       /\ Cardinality(EmptyErrors) =
             IF \/ PrintedError("Anthropic API key required")
                \/ Printed("install_error")
                \/ Printed("build_errors")
             THEN 1 ELSE 0
       /\ EmptyErrors # {} => console[Len(console)].text = ""

\* C19 failing case: the install failed; its error was printed and then an
\* empty error line
C19_Witness ==
    /\ pc = "aborted"
    /\ Printed("install_error")
    /\ Cardinality(ErrorReports) = 2
    /\ console[Len(console)] =
          [kind |-> "error", text |-> "", name |-> "", lines |-> <<>>, seq |-> 0]

\* the path lies under the project directory
UnderProject(p) == p[1] # ".."

\* the triples of the fix reply the LLM fixer got, none when the call failed
\* or the reply was not a bare JSON array
ReturnedFixes(call, reply) ==
    IF call.ok /\ reply.to = "fix" /\ reply.text.wrap = "bare"
       /\ reply.text.json.kind = "array"
    THEN reply.text.json.val
    ELSE <<>>

\* C20: the LLM-assisted fix writes a path only if it already exists and lies
\* under the project directory: every returned triple whose file exists
\* under the project is overwritten with exactly its fixed_code, and no file
\* outside the project and no file that did not exist is written.
C20_FixWritesOnlyProjectFiles ==
    [][ pc = "llm_fix" =>
          /\ \A p \in Paths :
                fs'[p] # fs[p] => Exists(fs, p) /\ UnderProject(p)
          /\ \A k \in 1..Len(ReturnedFixes(lastCall', lastReply')) :
                LET fix == ReturnedFixes(lastCall', lastReply')[k]
                IN (fix.wellformed /\ Exists(fs, fix.file) /\ UnderProject(fix.file))
                      => fs'[fix.file] = fix.fixed_code ]_vars

\* C20, what the code does: a returned triple is written when
\* project_dir / file exists, under the project or not; a path that did not
\* exist is never created.
C20_FixWritesExistingFiles ==
    [][ pc = "llm_fix" =>
          /\ \A p \in Paths :
                fs'[p] # fs[p] =>
                   /\ Exists(fs, p)
                   /\ \E k \in 1..Len(ReturnedFixes(lastCall', lastReply')) :
                         /\ ReturnedFixes(lastCall', lastReply')[k].file = p
                         /\ fs'[p] = ReturnedFixes(lastCall', lastReply')[k].fixed_code
          /\ \A k \in 1..Len(ReturnedFixes(lastCall', lastReply')) :
                LET fix == ReturnedFixes(lastCall', lastReply')[k]
                IN (fix.wellformed /\ Exists(fs, fix.file))
                      => fs'[fix.file] = fix.fixed_code ]_vars

\* C20 failing case: the fix reply named an existing file outside the
\* project directory and the file was overwritten
C20_Witness ==
    /\ lastReply.to = "fix"
    /\ lastCall.ok
    /\ fs[OutsidePath] = FixedText
    /\ log[Len(log)] = Event("llm:fix", TRUE)

\* the last LLM fix call ended in an exception inside the try block: the
\* gateway gave up, the reply was no usable JSON, or a triple had no file
FixFailedInside ==
    /\ lastReply.to = "fix"
    /\ \/ ~lastCall.ok
       \/ ~GenerateStructured(lastReply.text).ok
       \/ \E k \in 1..Len(ReturnedFixes(lastCall, lastReply)) :
             ~ReturnedFixes(lastCall, lastReply)[k].wellformed

\* C21: a failure inside the LLM-assisted fix (gateway error after retries,
\* unparseable reply, malformed triple) is not propagated: the run is not
\* aborted and no error is reported, the fix is followed by the next build
\* invocation, which is still allowed; and a non-empty list of well-formed
\* triples counts as a fix applied even when none of its files exists.
C21_FixFailureNotPropagated ==
    /\ \A i \in 1..Len(log) :
          log[i].ev = "llm:fix" =>
             IF i = Len(log)
             THEN /\ pc = "build"
                  /\ attempt < max_attempts
                  /\ ENABLED Build
                  /\ ErrorReports = {}
             ELSE IsBuild(log[i + 1])
    /\ (lastReply.to = "fix" /\ FixFailedInside) =>
          /\ log[Len(log)] = Event("llm:fix", FALSE)
          /\ console[Len(console)].kind = "warning"
    /\ (/\ lastReply.to = "fix"
        /\ ReturnedFixes(lastCall, lastReply) # <<>>
        /\ \A k \in 1..Len(ReturnedFixes(lastCall, lastReply)) :
              ReturnedFixes(lastCall, lastReply)[k].wellformed)
       => log[Len(log)] = Event("llm:fix", TRUE)

\* C21 witness: the gateway gave up on the fix call after its retries; the
\* warning was printed and the run stands before its next build
C21_Witness ==
    /\ lastReply.to = "fix"
    /\ ~lastCall.ok
    /\ lastCall.requests = max_retries
    /\ log[Len(log)] = Event("llm:fix", FALSE)
    /\ console[Len(console)].kind = "warning"
    /\ pc = "build"
    /\ attempt < max_attempts

\* C21, second case: the reply named only a file that does not exist;
\* nothing was written and the fix still counts as applied
C21_WitnessNoFile ==
    /\ lastReply.to = "fix"
    /\ ReturnedFixes(lastCall, lastReply) = <<Fix(NewPath)>>
    /\ log[Len(log)] = Event("llm:fix", TRUE)
    /\ ~Exists(fs, NewPath)
    /\ pc = "build"

\* the external actions of a run: everything logged but the rewrite of
\* App.tsx, which is a file write inside generate_project
IsExternal(e) == e.ev # "app"

ExternalActions == SelectSeq(log, IsExternal)

\* n successful component LLM calls
ComponentCalls(n) == [i \in 1..n |-> Event("llm:component", TRUE)]

\* the parse call and every component call succeeded, the install exited 0
\* and the first build exited 0
CleanRun ==
    /\ \A i \in 1..Len(log) : IsLLM(log[i]) \/ log[i].ev = "install" => log[i].ok
    /\ \E i \in 1..Len(log) : IsBuild(log[i]) /\ log[i].ok /\ BuildsBefore(i) = 1

\* C22: in a run where the parse call and all N component calls succeed, the
\* install exits 0 and the first build exits 0, the external actions are, in
\* this order, 1 parse LLM call, the scaffold, N component LLM calls, 1
\* install and 1 build, with no fix attempt; the run reports success, and the
\* recorded token usage is nonzero, the sum of the usage of the 1 + N calls.
C22_CleanRunSequence ==
    CleanRun =>
       LET n == Len(spec.components)
       IN /\ ExternalActions =
                <<Event("llm:parse", TRUE), Event("scaffold", TRUE)>>
                \o ComponentCalls(n)
                \o <<Event("install", TRUE), Event("build", TRUE)>>
          /\ \A i \in 1..Len(log) : ~IsFix(log[i])
          /\ \A u \in RunUsages : /\ input_tokens = (1 + n) * u.inp
                                  /\ output_tokens = (1 + n) * u.out
          /\ input_tokens + output_tokens > 0
          /\ pc \in {"report", "done"}
          /\ pc = "report" => ENABLED Report /\ build_success
          /\ pc = "done" => /\ console[Len(console)].kind = "success"
                            /\ ErrorReports = {}

\* C22 witness: a clean run over two components has reported success
C22_Witness ==
    /\ CleanRun
    /\ pc = "done"
    /\ Len(spec.components) = 2
    /\ Len(log) = 7
    /\ input_tokens = 6

\* the entries of the component list that carry the root component's name
MainEntries == {i \in 1..Len(spec.components) : spec.components[i] = spec.main_component}

\* generate_project has been entered with the ProjectSpec that parse returned
SpecConsumed == pc \in {"generate", "install", "build", "repair", "llm_fix", "report", "done"}

\* C23 as stated: every ProjectSpec produced by parse and consumed by
\* generate_project names as main_component exactly one entry of its
\* component list.
C23_MainNamesOneComponent ==
    SpecConsumed => Cardinality(MainEntries) = 1

\* C23, what the code does: the ProjectSpec that generate_project consumes
\* is the reply of the parse call as it came, with no check that relates
\* main_component to the component list, and App.tsx imports and renders
\* main_component whether or not a component of that name was generated.
C23_MainComponentUnchecked ==
    /\ SpecConsumed => spec \in ProjectSpecs
    /\ (pc = "scaffold" /\ lastReply.to = "parse") => spec = lastReply.text.json.val
    /\ pc \in {"install", "build", "repair", "llm_fix", "report", "done"}
          => Mentions(fs[AppPath], "import", spec.main_component)

\* C23 failing case: the parsed ProjectSpec names a root component that is
\* not in its component list; generation went through and App.tsx imports a
\* component for which no file exists
C23_Witness ==
    /\ pc = "install"
    /\ spec.components = <<"A">>
    /\ spec.main_component = "B"
    /\ MainEntries = {}
    /\ AppWiresMain
    /\ ~Exists(fs, TsxPath("B"))

\* this step ends a call of _attempt_build_fix that returns False
FixReturnsFalse == pc = "llm_fix" /\ log'[Len(log')] = Event("llm:fix", FALSE)

\* C24 as stated: whenever _attempt_build_fix returns False no file was
\* modified by that call: the files are the same as before the call, both
\* after its deterministic part and after its LLM-assisted part.
C24_FalseMeansUntouched ==
    [][ /\ (pc = "repair" /\ pc' = "llm_fix") => fs' = fs
        /\ FixReturnsFalse => fs' = fs ]_vars

\* C24, what the code does: a call that returns False has modified files
\* only when a triple of the reply raised after earlier triples had been
\* written; the files it changed are then those of the well-formed triples
\* before it.
C24_FalseAfterPartialWrites ==
    [][ /\ (pc = "repair" /\ pc' = "llm_fix") => fs' = fs
        /\ (FixReturnsFalse /\ fs' # fs) =>
              LET fixes == ReturnedFixes(lastCall', lastReply')
              IN \E k \in 2..Len(fixes) :
                    /\ ~fixes[k].wellformed
                    /\ \A p \in Paths :
                          fs'[p] # fs[p] =>
                             \E j \in 1..(k - 1) :
                                /\ fixes[j].wellformed
                                /\ fixes[j].file = p
                                /\ fs'[p] = fixes[j].fixed_code ]_vars

\* C24 failing case: the reply held a triple for A.tsx and then an element
\* without a file; A.tsx was overwritten and the call returned False
C24_Witness ==
    /\ lastReply.to = "fix"
    /\ lastCall.ok
    /\ ReturnedFixes(lastCall, lastReply) = <<Fix(TsxPath("A")), Malformed>>
    /\ log[Len(log)] = Event("llm:fix", FALSE)
    /\ fs[TsxPath("A")] = FixedText
    /\ console[Len(console)].kind = "warning"

\* C25: the run reports success only if the most recent build invocation
\* exited 0 and no project file was modified, by the deterministic or the
\* LLM-assisted fix, after that build started: the successful build is the
\* last logged action, so a fix is never the last action before a success
\* report, and neither the build step nor the report changes a file.
C25_SuccessOnlyAfterCleanBuild ==
    /\ [](Printed("success") =>
            /\ pc = "done"
            /\ log[Len(log)] = Event("build", TRUE)
            /\ build_result.returncode = 0
            /\ build_result.seq = Builds
            /\ \A i \in 1..Len(log) : IsFix(log[i]) =>
                  \E j \in (i + 1)..Len(log) : IsBuild(log[j]))
    /\ [][(pc \in {"build", "report"}) => (fs' = fs)]_vars

\* C25 witness: success was reported after an LLM-assisted fix changed a
\* file and the build that followed it exited 0
C25_Witness ==
    /\ Printed("success")
    /\ \E i \in 1..Len(log) : log[i] = Event("llm:fix", TRUE)
    /\ fs[TsxPath("A")] = FixedText
    /\ log[Len(log)] = Event("build", TRUE)

\* the calls of _attempt_build_fix: each starts with the deterministic fix
RepairSteps == EventsOf({"simple_fix"})

LlmFixCalls == EventsOf({"llm:fix"})

BuildSteps == EventsOf({"build"})

\* C26: in the build loop, build invocations and repair steps strictly
\* alternate: _attempt_build_fix is called exactly once between two
\* consecutive build invocations, never before the first build and never
\* after a successful build, so a run has at most max_attempts - 1 repair
\* steps and at most max_attempts - 1 LLM fix calls.
C26_BuildsAndRepairsAlternate ==
    /\ \A i \in RepairSteps : i > 1 /\ log[i - 1] = Event("build", FALSE)
    /\ \A i \in LlmFixCalls : i - 1 \in RepairSteps
    /\ \A i \in BuildSteps, j \in BuildSteps :
          (i < j /\ \A k \in (i + 1)..(j - 1) : k \notin BuildSteps) =>
             /\ Cardinality({k \in RepairSteps : i < k /\ k < j}) = 1
             /\ Cardinality({k \in LlmFixCalls : i < k /\ k < j}) <= 1
             /\ ~log[i].ok
    /\ \A i \in BuildSteps : log[i].ok => \A k \in RepairSteps \cup LlmFixCalls : k < i
    /\ Cardinality(RepairSteps) <= max_attempts - 1
    /\ Cardinality(LlmFixCalls) <= max_attempts - 1
    /\ Cardinality(RepairSteps) <= Cardinality(BuildSteps)
    /\ Cardinality(BuildSteps) <= Cardinality(RepairSteps) + 1

\* C26 witness: three builds with a repair between each two, both repairs
\* going through to the LLM fixer
C26_Witness ==
    /\ Cardinality(BuildSteps) = max_attempts
    /\ Cardinality(RepairSteps) = max_attempts - 1
    /\ Cardinality(LlmFixCalls) = max_attempts - 1
    /\ pc = "aborted"

\* the run is over: success was reported or the run was aborted
Terminal == pc \in {"done", "aborted"}

\* C27: provided every external call (LLM request, install, build)
\* returns, every run of generate eventually reaches a terminal state,
\* success reported or aborted with failure, and every call of the gateway
\* leaves its retry loop, for any sequence of LLM failures, fix outcomes and
\* build exit codes: neither loop cycles forever.
C27_RunTerminates ==
    /\ (pc # "gateway") ~> Terminal
    /\ (gw.phase = "loop") ~> (gw.phase = "idle")

\* C27 witness: the run ended after every build failed and both LLM fix
\* calls failed
C27_Witness ==
    /\ Terminal
    /\ Cardinality(BuildSteps) = max_attempts
    /\ Cardinality(LlmFixCalls) = max_attempts - 1
    /\ \A i \in LlmFixCalls \cup BuildSteps : ~log[i].ok
    /\ Printed("build_errors")

CurrentEvents == {i \in 1..Len(log) : ~IsRunMarker(log[i])}

\* C28, the later run's earlier failures set apart: a run that fails after
\* scaffolding (component generation failure, install failure or build
\* exhaustion) leaves the output directory in place, and no run ever removes
\* a directory or a file; so a later run with the same output path never
\* gets past the Scaffolder and writes no file: once its credential check
\* has passed and its parse LLM call has returned a ProjectSpec it fails at
\* the Scaffolder with the already-exists error, that parse call being its
\* only external action.
C28_LeftDirectoryBlocksLaterRuns ==
    /\ []((pc = "aborted" /\ Scaffolded) =>
            /\ OutputExists(dirs)
            /\ \A p \in ScaffoldPaths : Exists(fs, p))
    /\ [](LaterRun =>
            /\ OutputExists(dirs)
            /\ pc \in {"start", "parse", "scaffold", "aborted"}
            /\ \A i \in CurrentEvents : log[i].ev = "llm:parse"
            /\ Cardinality(CurrentEvents) <= 1
            /\ pc = "scaffold" => ENABLED Scaffold
            /\ (pc = "aborted" /\ spec # NoSpec) =>
                  /\ PrintedError(FileExistsText)
                  /\ Printed("hint")
            /\ PrintedError(FileExistsText) =>
                  \E i \in CurrentEvents : log[i] = Event("llm:parse", TRUE))
    /\ [][ /\ dirs \subseteq dirs'
           /\ \A p \in Paths : Exists(fs, p) => Exists(fs', p)
           /\ (LaterRun \/ LaterRun') => (fs' = fs /\ dirs' = dirs) ]_vars

\* C28 as stated: any later run with the same output path fails at the
\* Scaffolder with the already-exists error.
C28_EveryLaterRunFailsAtScaffolder ==
    (LaterRun /\ pc = "aborted") => PrintedError(FileExistsText)

\* C28 witness: after a run that failed past scaffolding, the next run on
\* the same path made its parse call and failed at the Scaffolder
C28_Witness ==
    /\ LaterRun
    /\ pc = "aborted"
    /\ PrintedError(FileExistsText)
    /\ log[Len(log)] = Event("llm:parse", TRUE)
    /\ input_tokens > 0
    /\ Exists(fs, AppPath)

====
